---- MODULE Spec2Model ----
(***************************************************************************)
(* State-machine model of the pharmacy inventory application (src/main.py).*)
(*                                                                         *)
(* Storage is the three SQLite tables of init_db (types, items, settings). *)
(* The user interface is the Flet page: the view shown in the body, the    *)
(* navigation bar index, the floating add button, the filter dropdowns and *)
(* table of the list/export page, the item-details dialog, the add/edit    *)
(* form and the settings form.  Every event handler of the source is one   *)
(* action.                                                                 *)
(*                                                                         *)
(* Text is modelled as a sequence of one-character strings, so that the    *)
(* string functions of the source (strip, isdigit, replace, int, float,    *)
(* str, zfill) are computed and not assumed.  A REAL price is held as a    *)
(* whole number of hundredths.                                             *)
(***************************************************************************)
EXTENDS Integers, Sequences, FiniteSets, TLC

(***************************************************************************)
(* Bounds of the model.                                                    *)
(***************************************************************************)
\* Rows ever inserted into items (AUTOINCREMENT ids 1..MaxItems).
MaxItems == 3

(***************************************************************************)
(* Python string functions.                                                *)
(***************************************************************************)
\* U+00B2 SUPERSCRIPT TWO: str.isdigit() accepts it, int() and float() do not.
SupTwo == "sup2"

DecimalChars == <<"0", "1", "2", "3", "4", "5", "6", "7", "8", "9">>

DecimalSet == {DecimalChars[i] : i \in 1..10}

DigitVal(c) == (CHOOSE i \in 1..10 : DecimalChars[i] = c) - 1

\* str.isdigit(): non-empty and every character is a digit character.
isdigit(s) == Len(s) > 0 /\ \A i \in 1..Len(s) : s[i] \in DecimalSet \cup {SupTwo}

\* True when every character is a decimal digit: int(s) does not raise.
IsDecimal(s) == Len(s) > 0 /\ \A i \in 1..Len(s) : s[i] \in DecimalSet

RECURSIVE DigitsValue(_)
DigitsValue(s) ==
    IF s = << >> THEN 0
    ELSE DigitsValue(SubSeq(s, 1, Len(s) - 1)) * 10 + DigitVal(s[Len(s)])

\* int(s) for a string of decimal digits.
int(s) == DigitsValue(s)

RECURSIVE lstrip(_)
lstrip(s) == IF s # << >> /\ s[1] = " " THEN lstrip(Tail(s)) ELSE s

RECURSIVE rstrip(_)
rstrip(s) ==
    IF s # << >> /\ s[Len(s)] = " " THEN rstrip(SubSeq(s, 1, Len(s) - 1)) ELSE s

\* str.strip()
strip(s) == rstrip(lstrip(s))

\* Index of the first "." of s, 0 when there is none.
DotIndex(s) ==
    IF \E i \in 1..Len(s) : s[i] = "."
    THEN CHOOSE i \in 1..Len(s) : s[i] = "." /\ \A j \in 1..(i - 1) : s[j] # "."
    ELSE 0

\* s.replace(".", "", 1)
replace_dot(s) ==
    IF DotIndex(s) = 0 THEN s
    ELSE SubSeq(s, 1, DotIndex(s) - 1) \o SubSeq(s, DotIndex(s) + 1, Len(s))

\* float(s) does not raise: decimal digits around at most one ".", at least one digit.
FloatParses(s) == IsDecimal(replace_dot(s))

\* Hundredths in one price unit (prices are shown with two decimals).
Hundredths == 100

\* float(s), in hundredths, for a string FloatParses accepts with at most two
\* fraction digits.
float(s) ==
    LET d == DotIndex(s)
        whole == IF d = 0 THEN s ELSE SubSeq(s, 1, d - 1)
        frac == IF d = 0 THEN << >> ELSE SubSeq(s, d + 1, Len(s))
        fracval == IF Len(frac) = 0 THEN 0
                   ELSE IF Len(frac) = 1 THEN DigitVal(frac[1]) * 10
                   ELSE DigitVal(frac[1]) * 10 + DigitVal(frac[2])
    IN  DigitsValue(whole) * Hundredths + fracval

RECURSIVE NatStr(_)
NatStr(n) ==
    IF n < 10 THEN <<DecimalChars[n + 1]>>
    ELSE NatStr(n \div 10) \o <<DecimalChars[(n % 10) + 1]>>

\* str(n) for an integer n >= 0.
str(n) == NatStr(n)

\* str(n).zfill(2)
zfill2(s) == IF Len(s) < 2 THEN <<"0">> \o s ELSE s

\* str(x) for a float x >= 0 held in hundredths: "12.0", "5.5", "0.05".
float_str(c) ==
    LET f == c % Hundredths
    IN  NatStr(c \div Hundredths) \o <<".">> \o
        (IF f % 10 = 0 THEN NatStr(f \div 10) ELSE zfill2(NatStr(f)))

\* An unset dropdown value (None) and an empty text field are both falsy.
Unset == << >>

Truthy(s) == s # << >>

(***************************************************************************)
(* Environment of one run.                                                 *)
(***************************************************************************)
\* datetime.now().year and datetime.now().month while the program runs.
CurrentYear == 2025

CurrentMonth == 6

\* Dropdown options: months "01".."12", years current_year-3 .. current_year+7.
MonthOptions == {zfill2(str(m)) : m \in 1..12}

YearOptions == {str(y) : y \in (CurrentYear - 3)..(CurrentYear + 7)}

(***************************************************************************)
(* Storage: the tables of init_db.                                         *)
(***************************************************************************)
\* The eight seeded types (name_en; the last one is stored with its trailing space).
medicine_types ==
    <<"Tablet", "Syrup", "Injection", "Capsule", "Ointment", "Drops", "Spray", "Cream ">>

SeedTypes == {[id |-> i, name_en |-> medicine_types[i]] : i \in 1..Len(medicine_types)}

MyPharmacy == <<"M", "y", " ", "P", "h", "a", "r", "m", "a", "c", "y">>

SeedPhone == <<"0", "1", "0", "0", "0", "0", "0", "0", "0", "0">>

\* The settings row init_db inserts when the table is empty.
SeedSettings ==
    [id |-> 1, pharmacy_name |-> MyPharmacy, phone_number |-> SeedPhone,
     doctor_name |-> << >>, doctor_phone |-> << >>, theme_mode |-> "light"]

VARIABLES
    types,        \* table types: set of [id, name_en]
    items,        \* table items: set of rows, one per id
    seq_items,    \* AUTOINCREMENT counter of items (largest id ever given)
    settings,     \* table settings: sequence of rows in rowid order
    view,         \* what body.content shows: list, export, settings, contact, add, edit
    nav_index,    \* nav.selected_index, -1 for None
    fab_visible,  \* page.floating_action_button.visible
    filter,       \* the four filter dropdowns of the list/export page
    rows,         \* the rows of the list/export table, as load_data left them
    dialog,       \* the item-details dialogs that are open, in the order they were
                  \* opened, each held as the item it shows
    form,         \* the fields of the add/edit form
    form_types,   \* ids of the types the form's dropdown was built with
    edit_item,    \* the item the edit form was opened for: << >> or <<item>>
    mem,          \* settings_page's variables pharmacy_name .. theme_mode
    sform,        \* the fields of the settings form
    picker,       \* the open folder picker: << >> or <<the rows export_to_pdf loaded>>
    seq_settings, \* AUTOINCREMENT counter of settings (largest id ever given)
    storage,      \* the condition of the database file: "up", "unopenable", "failing"
    io,           \* what the latest event did: connections opened, connections left
                  \* without close(), errors logged, error notifications shown, the
                  \* table of the PDF written
    page_theme_mode, \* page.theme_mode: "light", "dark", or "system" (never assigned)
    app_title,    \* page.appbar.title.value, << >> when there is no app bar
    snack         \* the notification raised by the latest event, "" when none; a
                  \* message is held by its fixed words, without its icon, its
                  \* interpolated item name or its exception text

db == <<types, items, seq_items, settings, seq_settings, storage>>

ui == <<view, nav_index, fab_visible, filter, rows, dialog, form, form_types,
        edit_item, mem, sform, picker, io, page_theme_mode, app_title, snack>>

vars == <<types, items, seq_items, settings, seq_settings, storage, view, nav_index,
          fab_visible, filter, rows, dialog, form, form_types, edit_item, mem, sform,
          picker, io, page_theme_mode, app_title, snack>>

(***************************************************************************)
(* Storage calls: get_connection, the statements, conn.close().            *)
(***************************************************************************)
\* The conditions of the database file.  "unopenable": sqlite3.connect raises.
\* "failing": connect returns a connection and every statement on it raises (the
\* file is locked by another process, or is not a database).
StorageStates == {"up", "unopenable", "failing"}

\* An event that makes no storage call, logs nothing and shows no error.
NoIO == [opened |-> 0, left |-> 0, log |-> {}, errors |-> {}, pdf |-> << >>, header |-> << >>]

\* One `conn = get_connection(db_path) ... conn.close()` block inside a try: a
\* statement that raises skips the close() that follows it.
Call(st) ==
    [opened |-> IF st = "unopenable" THEN 0 ELSE 1,
     left |-> IF st = "failing" THEN 1 ELSE 0]

\* An event whose n storage calls all returned.
Ok(n) == [opened |-> n, left |-> 0, log |-> {}, errors |-> {}, pdf |-> << >>, header |-> << >>]

\* An event whose storage call raised under condition st: its except clause logged
\* the messages lg and showed the error notifications er.
Failed(st, lg, er) ==
    [opened |-> Call(st).opened, left |-> Call(st).left, log |-> lg, errors |-> er,
     pdf |-> << >>, header |-> << >>]

(***************************************************************************)
(* The listing query and the expiry filter (load_data).                    *)
(***************************************************************************)
\* Mutant of ExpiryBefore: no ORDER BY clause, rows come in rowid order.
ExpiryBefore_rowid(a, b) == a.id <= b.id

\* ORDER BY expiry_year ASC, expiry_month ASC; rows of equal expiry in rowid order.
ExpiryBefore(a, b) ==
    \/ a.exp_year < b.exp_year
    \/ a.exp_year = b.exp_year /\ a.exp_month < b.exp_month
    \/ a.exp_year = b.exp_year /\ a.exp_month = b.exp_month /\ a.id <= b.id

RECURSIVE OrderByExpiry(_)
OrderByExpiry(S) ==
    IF S = {} THEN << >>
    ELSE LET first == CHOOSE x \in S : \A y \in S : ExpiryBefore(x, y)
         IN  <<first>> \o OrderByExpiry(S \ {first})

\* FROM items JOIN types ON items.type_id = types.id
JoinTypes(its, tys) ==
    {[id |-> i.id, name |-> i.name, type_name |-> t.name_en, qty |-> i.quantity,
      price |-> i.price, exp_month |-> i.expiry_month, exp_year |-> i.expiry_year]
        : <<i, t>> \in {p \in its \X tys : p[1].type_id = p[2].id}}

\* The SELECT of load_data: items_data.
select_items(its, tys) == OrderByExpiry(JoinTypes(its, tys))

\* datetime(y, m, d) <= datetime(y2, m2, d2)
DateLE(a, b) ==
    \/ a[1] < b[1]
    \/ a[1] = b[1] /\ a[2] < b[2]
    \/ a[1] = b[1] /\ a[2] = b[2] /\ a[3] <= b[3]

\* Mutant of InRange: the end date is the first day of the end month and the
\* comparison with it is strict.
InRange_end_exclusive(item, f) ==
    LET start_date == <<int(f.start_year), int(f.start_month), 1>>
        end_date == <<int(f.end_year), int(f.end_month), 1>>
        d == <<item.exp_year, item.exp_month, 1>>
    IN  DateLE(start_date, d) /\ DateLE(d, end_date) /\ d # end_date

\* start_date <= datetime(item[6], item[5], 1) <= end_date
InRange(item, f) ==
    LET start_date == <<int(f.start_year), int(f.start_month), 1>>
        end_date == <<int(f.end_year), int(f.end_month), 28>>
        d == <<item.exp_year, item.exp_month, 1>>
    IN  DateLE(start_date, d) /\ DateLE(d, end_date)

\* The filter is applied only when all four dropdowns have a value.
FilterSet(f) ==
    Truthy(f.start_month) /\ Truthy(f.start_year) /\ Truthy(f.end_month) /\ Truthy(f.end_year)

\* int() and datetime() accept the four values: no exception in the filter block.
filter_parses(f) ==
    /\ IsDecimal(f.start_month) /\ IsDecimal(f.start_year)
    /\ IsDecimal(f.end_month) /\ IsDecimal(f.end_year)
    /\ int(f.start_month) \in 1..12 /\ int(f.end_month) \in 1..12
    /\ int(f.start_year) \in 1..9999 /\ int(f.end_year) \in 1..9999

\* Mutant of load_data: a start that is set is applied even when the end is not.
load_data_open_ended(its, tys, f) ==
    LET items_data == select_items(its, tys)
        from_start(item) ==
            DateLE(<<int(f.start_year), int(f.start_month), 1>>,
                   <<item.exp_year, item.exp_month, 1>>)
    IN  IF FilterSet(f) /\ filter_parses(f)
        THEN SelectSeq(items_data, LAMBDA item : InRange(item, f))
        ELSE IF Truthy(f.start_month) /\ Truthy(f.start_year)
        THEN SelectSeq(items_data, from_start)
        ELSE items_data

\* Mutant of load_data: a range whose start is after its end is not applied.
load_data_reversed_ignored(its, tys, f) ==
    LET items_data == select_items(its, tys)
    IN  IF FilterSet(f) /\ filter_parses(f)
           /\ DateLE(<<int(f.start_year), int(f.start_month), 1>>,
                     <<int(f.end_year), int(f.end_month), 28>>)
        THEN SelectSeq(items_data, LAMBDA item : InRange(item, f))
        ELSE items_data

\* load_data: the rows it puts in the table (`filtered`).  An exception in the
\* filter block is caught and the unfiltered rows are shown.
load_data(its, tys, f) ==
    LET items_data == select_items(its, tys)
    IN  IF FilterSet(f) /\ filter_parses(f)
        THEN SelectSeq(items_data, LAMBDA item : InRange(item, f))
        ELSE items_data

\* The dropdowns of a freshly built list/export page.
FreshFilter ==
    [start_month |-> Unset, start_year |-> str(CurrentYear),
     end_month |-> Unset, end_year |-> str(CurrentYear)]

NoFilter == [start_month |-> Unset, start_year |-> Unset, end_month |-> Unset, end_year |-> Unset]

BlankForm ==
    [name |-> << >>, quantity |-> << >>, price |-> << >>, month |-> Unset,
     year |-> Unset, type |-> Unset]

NoSettings ==
    [pharmacy_name |-> << >>, phone_number |-> << >>, doctor_name |-> << >>,
     doctor_phone |-> << >>, theme_mode |-> "light"]

NoSettingsForm ==
    [name |-> << >>, phone |-> << >>, doctor_name |-> << >>, doctor_phone |-> << >>,
     dark |-> FALSE]

(***************************************************************************)
(* Inputs of the model: what the user types and selects.                   *)
(***************************************************************************)
\* Filter dropdown contents tried.  Every value is an option of its dropdown; the
\* year dropdowns are never unset (they start at the current year).
FilterOf(sm, sy, em, ey) ==
    [start_month |-> sm, start_year |-> sy, end_month |-> em, end_year |-> ey]

FilterInputs ==
    { FilterOf(<<"0", "3">>, <<"2", "0", "2", "4">>, <<"0", "1">>, <<"2", "0", "2", "5">>),
      FilterOf(<<"0", "6">>, <<"2", "0", "2", "4">>, <<"0", "6">>, <<"2", "0", "2", "4">>),
      FilterOf(<<"0", "3">>, <<"2", "0", "2", "5">>, <<"0", "1">>, <<"2", "0", "2", "5">>),
      FilterOf(<<"0", "6">>, <<"2", "0", "2", "4">>, <<"0", "1">>, <<"2", "0", "2", "4">>),
      FilterOf(<<"0", "3">>, <<"2", "0", "2", "4">>, Unset, <<"2", "0", "2", "5">>),
      FilterOf(Unset, <<"2", "0", "2", "4">>, <<"0", "1">>, <<"2", "0", "2", "5">>) }

\* Three forms that pass every check of save_item.
GoodForms ==
    { [name |-> <<"A">>, quantity |-> <<"1", "0">>, price |-> <<"5", ".", "5", "0">>,
       month |-> <<"0", "1">>, year |-> <<"2", "0", "2", "4">>, type |-> <<"1">>],
      [name |-> <<" ", "B", " ">>, quantity |-> <<"3">>, price |-> <<"1", "2">>,
       month |-> <<"0", "6">>, year |-> <<"2", "0", "2", "4">>, type |-> <<"2">>],
      [name |-> <<"A">>, quantity |-> <<"0", "7">>, price |-> <<".", "5">>,
       month |-> <<"0", "1">>, year |-> <<"2", "0", "2", "5">>, type |-> <<"2">>] }

BaseForm == CHOOSE f \in GoodForms : f.type = <<"1">>

BadNames == {<< >>, <<" ">>, <<" ", " ">>}

BadQuantities ==
    {<< >>, <<"0">>, <<"0", "0">>, <<"-", "1">>, <<"1", ".", "5">>, <<"x">>, <<" ", "3">>,
     <<SupTwo>>}

BadPrices ==
    {<< >>, <<"0">>, <<"0", ".", "0">>, <<"-", "2">>, <<"x">>, <<".">>,
     <<"1", ".", "2", ".", "3">>, <<"1", "e", "2">>, <<SupTwo>>}

\* Forms with two fields spoilt: a missing field together with a quantity or price
\* that an earlier check of save_item looks at.
TwoBadFields ==
    { [BaseForm EXCEPT !.quantity = <<"0">>, !.type = Unset],
      [BaseForm EXCEPT !.quantity = <<SupTwo>>, !.type = Unset],
      [BaseForm EXCEPT !.price = <<SupTwo>>, !.month = Unset],
      [BaseForm EXCEPT !.name = <<" ">>, !.quantity = <<SupTwo>>] }

\* Every form content tried: the good ones, the base form with one field spoilt,
\* and the forms with two fields spoilt.
FormInputs ==
    GoodForms
    \cup {[BaseForm EXCEPT !.name = n] : n \in BadNames}
    \cup {[BaseForm EXCEPT !.quantity = q] : q \in BadQuantities}
    \cup {[BaseForm EXCEPT !.price = p] : p \in BadPrices}
    \cup {[BaseForm EXCEPT !.month = Unset], [BaseForm EXCEPT !.year = Unset],
          [BaseForm EXCEPT !.type = Unset]}
    \cup TwoBadFields

\* Settings form contents tried: all blank, all spaces, and each field alone filled.
Spaces == <<" ">>

SettingsInputs ==
    { [name |-> << >>, phone |-> << >>, doctor_name |-> << >>, doctor_phone |-> << >>],
      [name |-> Spaces, phone |-> Spaces, doctor_name |-> Spaces, doctor_phone |-> Spaces],
      [name |-> <<" ", "N", " ">>, phone |-> << >>, doctor_name |-> << >>,
       doctor_phone |-> Spaces],
      [name |-> << >>, phone |-> <<"7", " ">>, doctor_name |-> Spaces, doctor_phone |-> << >>],
      [name |-> Spaces, phone |-> << >>, doctor_name |-> <<"D">>, doctor_phone |-> << >>],
      [name |-> << >>, phone |-> Spaces, doctor_name |-> << >>, doctor_phone |-> <<" ", "8">>] }

(***************************************************************************)
(* Page builders.                                                          *)
(***************************************************************************)
TypeIds(tys) == {t.id : t \in tys}

\* The fields of a freshly built add form.
add_item_page ==
    [name |-> << >>, quantity |-> << >>, price |-> << >>,
     month |-> zfill2(str(CurrentMonth)), year |-> str(CurrentYear), type |-> Unset]

\* The fields of the edit form built for `item`, with the types read from storage.
edit_item_page(item, tys) ==
    [name |-> item.name, quantity |-> str(item.qty), price |-> float_str(item.price),
     month |-> zfill2(str(item.exp_month)), year |-> str(item.exp_year),
     type |-> IF \E t \in tys : t.name_en = item.type_name
              THEN str((CHOOSE t \in tys : t.name_en = item.type_name).id)
              ELSE Unset]

\* row[k] or default
OrDefault(v, default) == IF Truthy(v) THEN v ELSE default

\* Mutant of settings_defaults: the variables start empty.
settings_defaults_empty ==
    [pharmacy_name |-> << >>, phone_number |-> << >>, doctor_name |-> << >>,
     doctor_phone |-> << >>, theme_mode |-> "light"]

\* The values settings_page gives its variables before it reads the table.
settings_defaults ==
    [pharmacy_name |-> MyPharmacy, phone_number |-> << >>, doctor_name |-> << >>,
     doctor_phone |-> << >>, theme_mode |-> "light"]

\* settings_page: the values it loads (WHERE id = 1), defaults when there is no row.
load_settings(tbl) ==
    IF \E k \in 1..Len(tbl) : tbl[k].id = 1
    THEN LET row == tbl[CHOOSE k \in 1..Len(tbl) : tbl[k].id = 1]
         IN  [pharmacy_name |-> OrDefault(row.pharmacy_name, settings_defaults.pharmacy_name),
              phone_number |-> OrDefault(row.phone_number, settings_defaults.phone_number),
              doctor_name |-> OrDefault(row.doctor_name, settings_defaults.doctor_name),
              doctor_phone |-> OrDefault(row.doctor_phone, settings_defaults.doctor_phone),
              theme_mode |-> row.theme_mode]
    ELSE settings_defaults

\* The try block of settings_page: a read that raises leaves the defaults in place.
read_settings(st, tbl) == IF st = "up" THEN load_settings(tbl) ELSE settings_defaults

\* The settings form as settings_page builds it from the loaded values.
settings_form(m) ==
    [name |-> m.pharmacy_name, phone |-> m.phone_number, doctor_name |-> m.doctor_name,
     doctor_phone |-> m.doctor_phone, dark |-> (m.theme_mode = "dark")]

\* The table after load_data(): cleared first, filled when the SELECT returns.
table_rows(st, its, tys, f) == IF st = "up" THEN load_data(its, tys, f) ELSE << >>

\* What load_data() did: its except clause logs and shows "Error loading data".
load_io(st) ==
    IF st = "up" THEN Ok(1) ELSE Failed(st, {"Error loading data"}, {"Error loading data"})

\* The notification load_data() leaves: none, or its error.
load_snack(st) == IF st = "up" THEN "" ELSE "Error loading data"

\* The types a form's dropdown is built with: medicine_types = [] when the read raises.
fetch_types(st, tys) == IF st = "up" THEN tys ELSE {}

\* What the read of types did at the top of add_item_page / edit_item_page.
fetch_io(st) ==
    IF st = "up" THEN Ok(1)
    ELSE Failed(st, {"Error fetching medicine types"}, {"Error fetching types"})

fetch_snack(st) == IF st = "up" THEN "" ELSE "Error fetching types"

\* body.content = show_items_page(...) or export_page(...): fresh dropdowns, load_data().
ShowTable(v, its, tys) ==
    /\ view' = v
    /\ filter' = FreshFilter
    /\ rows' = table_rows(storage, its, tys, FreshFilter)
    /\ picker' = << >>
    /\ dialog' = << >>
    /\ form' = BlankForm
    /\ form_types' = {}
    /\ edit_item' = << >>
    /\ mem' = NoSettings
    /\ sform' = NoSettingsForm

\* The tail of save_item / cancel_add / cancel_edit: back to the items list.
BackToList(its, tys) ==
    /\ ShowTable("list", its, tys)
    /\ fab_visible' = TRUE
    /\ nav_index' = 0

(***************************************************************************)
(* Navigation.                                                             *)
(***************************************************************************)
\* An open dialog covers the page: the controls under it receive no event.
NoDialog == dialog = << >>

\* main built the page (it did not return at the database error), and neither the
\* details dialog nor the folder picker is open over it.
PageIdle == view # "blank" /\ NoDialog /\ picker = << >>

\* The body of update_page: pages[index](page), the navigation index, the button.
show_page(index) ==
    /\ \/ /\ index = 0
          /\ ShowTable("list", items, types)
          /\ snack' = load_snack(storage)
          /\ io' = load_io(storage)
       \/ /\ index = 1
          /\ ShowTable("export", items, types)
          /\ snack' = load_snack(storage)
          /\ io' = load_io(storage)
       \/ /\ index = 2
          /\ view' = "settings"
          /\ mem' = read_settings(storage, settings)
          /\ sform' = settings_form(read_settings(storage, settings))
          /\ filter' = NoFilter /\ rows' = << >> /\ dialog' = << >> /\ picker' = << >>
          /\ form' = BlankForm /\ form_types' = {} /\ edit_item' = << >>
          /\ snack' = ""
          /\ io' = IF storage = "up" THEN Ok(1)
                   ELSE Failed(storage, {"Error loading settings from DB"}, {})
       \/ /\ index = 3
          /\ view' = "contact"
          /\ mem' = NoSettings /\ sform' = NoSettingsForm
          /\ filter' = NoFilter /\ rows' = << >> /\ dialog' = << >> /\ picker' = << >>
          /\ form' = BlankForm /\ form_types' = {} /\ edit_item' = << >>
          /\ snack' = ""
          /\ io' = NoIO
    /\ nav_index' = index
    /\ fab_visible' = (index = 0)
    /\ UNCHANGED db

\* nav.on_change: a destination of the navigation bar is selected.
update_page(index) ==
    /\ PageIdle
    /\ show_page(index)
    /\ UNCHANGED <<page_theme_mode, app_title>>

\* Mutant of toggle_theme: the page under the app bar is left as it is.
toggle_theme_no_reload ==
    /\ PageIdle
    /\ page_theme_mode' = IF page_theme_mode = "light" THEN "dark" ELSE "light"
    /\ UNCHANGED app_title
    /\ snack' = ""
    /\ io' = NoIO
    /\ UNCHANGED <<db, view, nav_index, fab_visible, filter, rows, dialog, form,
                   form_types, edit_item, mem, sform, picker>>

\* The app bar's brightness button: page.theme_mode flips, the theme is built for
\* it, and the page of nav.selected_index is built again; a selected index of
\* None (the add and edit forms) is taken as 0.
toggle_theme ==
    /\ PageIdle
    /\ page_theme_mode' = IF page_theme_mode = "light" THEN "dark" ELSE "light"
    /\ UNCHANGED app_title
    /\ LET selected_index == nav_index
       IN  show_page(IF selected_index = -1 THEN 0 ELSE selected_index)

open_add_item ==
    /\ PageIdle
    /\ fab_visible
    /\ view' = "add"
    /\ form' = add_item_page
    /\ form_types' = TypeIds(fetch_types(storage, types))
    /\ nav_index' = -1
    /\ fab_visible' = FALSE
    /\ filter' = NoFilter /\ rows' = << >> /\ dialog' = << >> /\ edit_item' = << >>
    /\ picker' = << >>
    /\ mem' = NoSettings /\ sform' = NoSettingsForm
    /\ snack' = fetch_snack(storage)
    /\ io' = fetch_io(storage)
    /\ UNCHANGED <<db, page_theme_mode, app_title>>

(***************************************************************************)
(* The add and edit forms.                                                 *)
(***************************************************************************)
\* The user types and selects: the form holds f.  The type dropdown offers only the
\* types the form was built with.
fill_form(f) ==
    /\ view \in {"add", "edit"}
    /\ f.type = Unset \/ (IsDecimal(f.type) /\ int(f.type) \in form_types)
    /\ form' = f
    /\ snack' = ""
    /\ io' = NoIO
    /\ UNCHANGED <<db, view, page_theme_mode, app_title, nav_index, fab_visible, filter,
                   rows, dialog, form_types, edit_item, mem, sform, picker>>

\* Mutant of validate: the bounds of the table's CHECK constraints (>= 0) instead of
\* the form's (> 0).
validate_nonnegative(f) ==
    IF ~Truthy(strip(f.name)) THEN "Please enter the item name"
    ELSE IF ~isdigit(f.quantity) THEN "Quantity must be a positive integer"
    ELSE IF ~IsDecimal(f.quantity) THEN "raise"
    ELSE IF int(f.quantity) < 0 THEN "Quantity must be a positive integer"
    ELSE IF ~isdigit(replace_dot(f.price)) THEN "Price must be a valid positive number"
    ELSE IF ~FloatParses(f.price) THEN "raise"
    ELSE IF float(f.price) < 0 THEN "Price must be a valid positive number"
    ELSE IF ~Truthy(f.month) \/ ~Truthy(f.year) THEN "Please select expiry month and year"
    ELSE IF ~Truthy(f.type) THEN "Please select a medicine type"
    ELSE "ok"

\* The checks of save_item, in order: the message shown, "raise" when int() or
\* float() raises ValueError, "ok" when the statement is reached.
validate(f) ==
    IF ~Truthy(strip(f.name)) THEN "Please enter the item name"
    ELSE IF ~isdigit(f.quantity) THEN "Quantity must be a positive integer"
    ELSE IF ~IsDecimal(f.quantity) THEN "raise"
    ELSE IF int(f.quantity) <= 0 THEN "Quantity must be a positive integer"
    ELSE IF ~isdigit(replace_dot(f.price)) THEN "Price must be a valid positive number"
    ELSE IF ~FloatParses(f.price) THEN "raise"
    ELSE IF float(f.price) <= 0 THEN "Price must be a valid positive number"
    ELSE IF ~Truthy(f.month) \/ ~Truthy(f.year) THEN "Please select expiry month and year"
    ELSE IF ~Truthy(f.type) THEN "Please select a medicine type"
    ELSE "ok"

\* The parameter tuple of the INSERT / UPDATE statement.
statement_values(f) ==
    [name |-> strip(f.name), type_id |-> int(f.type), quantity |-> int(f.quantity),
     price |-> float(f.price), expiry_month |-> int(f.month), expiry_year |-> int(f.year)]

\* A row as INSERT writes it.  created_at takes DEFAULT CURRENT_TIMESTAMP: the time
\* of the INSERT, held as the number of the INSERT (the model's clock ticks once
\* per INSERT, so the time of a later statement is always greater).
ItemRow(id, v) ==
    [id |-> id, name |-> v.name, type_id |-> v.type_id, quantity |-> v.quantity,
     price |-> v.price, expiry_month |-> v.expiry_month, expiry_year |-> v.expiry_year,
     created_at |-> id]

\* The CHECK constraints of table items.  The FOREIGN KEY clause is not among them:
\* get_connection never issues PRAGMA foreign_keys = ON, so SQLite does not enforce it.
check_constraints(v) ==
    v.quantity >= 0 /\ v.price >= 0 /\ v.expiry_month \in 1..12

\* Mutant of insert_item: the new id is the row count plus one, so that after a
\* delete the insert replaces a stored row.
insert_item_count_id(its, id, v) ==
    {i \in its : i.id # Cardinality(its) + 1} \cup {ItemRow(Cardinality(its) + 1, v)}

\* INSERT INTO items (...) VALUES (...)
insert_item(its, id, v) == its \cup {ItemRow(id, v)}

\* Mutant of update_item: INSERT OR REPLACE, which writes the row anew, created_at
\* taking the time of the statement.
update_item_replace(its, id, v) ==
    {IF i.id = id THEN [ItemRow(id, v) EXCEPT !.created_at = seq_items + 1] ELSE i : i \in its}

\* UPDATE items SET name, type_id, quantity, price, expiry_month, expiry_year
\* WHERE id = ?: created_at is not in the SET list.
update_item(its, id, v) ==
    {IF i.id = id THEN [ItemRow(id, v) EXCEPT !.created_at = i.created_at] ELSE i : i \in its}

\* DELETE FROM items WHERE id = ?
delete_item(its, id) == {i \in its : i.id # id}

\* A handler that returns after show_error_snackbar(msg): no storage call, no log.
ShowError(msg) ==
    /\ snack' = msg
    /\ io' = [NoIO EXCEPT !.errors = {msg}]
    /\ UNCHANGED <<db, view, page_theme_mode, app_title, nav_index, fab_visible, filter,
                   rows, dialog, form, form_types, edit_item, mem, sform, picker>>

\* A handler whose try block raised: its except clause logs lg and shows msg; cs
\* is what became of the connection (NoIO when none was asked for yet).
Caught(msg, lg, cs) ==
    /\ snack' = msg
    /\ io' = [opened |-> cs.opened, left |-> cs.left, log |-> {lg}, errors |-> {msg},
              pdf |-> << >>, header |-> << >>]
    /\ UNCHANGED <<db, view, page_theme_mode, app_title, nav_index, fab_visible, filter,
                   rows, dialog, form, form_types, edit_item, mem, sform, picker>>

\* The statement of save_item can run: the connection opens, the statement is
\* accepted by the table's constraints.
statement_runs(st, v) == st = "up" /\ check_constraints(v)

\* add_item_page.save_item
add_save_item ==
    /\ view = "add"
    /\ LET outcome == validate(form)
       IN  IF outcome = "raise" THEN Caught("DB Error", "Error saving item", NoIO)
           ELSE IF outcome # "ok" THEN ShowError(outcome)
           ELSE IF ~statement_runs(storage, statement_values(form))
           THEN Caught("DB Error", "Error saving item",
                       IF storage = "up" THEN Call("failing") ELSE Call(storage))
           ELSE /\ seq_items < MaxItems
                /\ items' = insert_item(items, seq_items + 1, statement_values(form))
                /\ seq_items' = seq_items + 1
                /\ snack' = "Item added successfully"
                /\ io' = Ok(2)
                /\ BackToList(items', types)
                /\ UNCHANGED <<types, settings, seq_settings, storage, page_theme_mode, app_title>>

\* add_item_page.cancel_add
cancel_add ==
    /\ view = "add"
    /\ BackToList(items, types)
    /\ snack' = load_snack(storage)
    /\ io' = load_io(storage)
    /\ UNCHANGED <<db, page_theme_mode, app_title>>

\* edit_item_page.save_item
edit_save_item ==
    /\ view = "edit"
    /\ LET outcome == validate(form)
       IN  IF outcome = "raise" THEN Caught("DB Error", "Error updating item", NoIO)
           ELSE IF outcome # "ok" THEN ShowError(outcome)
           ELSE IF ~statement_runs(storage, statement_values(form))
           THEN Caught("DB Error", "Error updating item",
                       IF storage = "up" THEN Call("failing") ELSE Call(storage))
           ELSE /\ items' = update_item(items, edit_item[1].id, statement_values(form))
                /\ snack' = "Item updated successfully"
                /\ io' = Ok(2)
                /\ BackToList(items', types)
                /\ UNCHANGED <<types, seq_items, settings, seq_settings, storage,
                               page_theme_mode, app_title>>

\* edit_item_page.cancel_edit
cancel_edit ==
    /\ view = "edit"
    /\ BackToList(items, types)
    /\ snack' = load_snack(storage)
    /\ io' = load_io(storage)
    /\ UNCHANGED <<db, page_theme_mode, app_title>>

(***************************************************************************)
(* The list and export pages: filter, table, item-details dialog.          *)
(***************************************************************************)
\* The user picks options of the filter dropdowns (no handler runs).  A dropdown
\* that has a value cannot be emptied again.
select_filter(f) ==
    /\ view \in {"list", "export"}
    /\ PageIdle
    /\ f # filter
    /\ f.start_month \in MonthOptions \cup {Unset} /\ f.end_month \in MonthOptions \cup {Unset}
    /\ f.start_year \in YearOptions /\ f.end_year \in YearOptions
    /\ Truthy(filter.start_month) => Truthy(f.start_month)
    /\ Truthy(filter.end_month) => Truthy(f.end_month)
    /\ filter' = f
    /\ snack' = ""
    /\ io' = NoIO
    /\ UNCHANGED <<db, view, page_theme_mode, app_title, nav_index, fab_visible, rows,
                   dialog, form, form_types, edit_item, mem, sform, picker>>

\* The "Apply Filter" button: load_data(), then the notification, which follows
\* the error notification of a load_data() that failed.
apply_filter ==
    /\ view \in {"list", "export"}
    /\ PageIdle
    /\ rows' = table_rows(storage, items, types, filter)
    /\ snack' = "Filter applied successfully"
    /\ io' = load_io(storage)
    /\ UNCHANGED <<db, view, page_theme_mode, app_title, nav_index, fab_visible, filter,
                   dialog, form, form_types, edit_item, mem, sform, picker>>

\* page.dialog.open = False: the dialog opened last is closed.
close_page_dialog(d) == IF d = << >> THEN d ELSE SubSeq(d, 1, Len(d) - 1)

\* Mutant of on_row_select: the new dialog opens over the ones that are open.
on_row_select_stacked(k) ==
    /\ view \in {"list", "export"}
    /\ picker = << >>
    /\ k \in 1..Len(rows)
    /\ dialog' = Append(dialog, rows[k])
    /\ snack' = ""
    /\ io' = NoIO
    /\ UNCHANGED <<db, view, page_theme_mode, app_title, nav_index, fab_visible, filter,
                   rows, form, form_types, edit_item, mem, sform, picker>>

\* A table row is selected: page.dialog is closed and taken off the overlay, and
\* the row's details dialog opens.  The handler also runs with a dialog open: a
\* second row selected before the first row's dialog is on the screen.
on_row_select(k) ==
    /\ view \in {"list", "export"}
    /\ picker = << >>
    /\ k \in 1..Len(rows)
    /\ dialog' = Append(close_page_dialog(dialog), rows[k])
    /\ snack' = ""
    /\ io' = NoIO
    /\ UNCHANGED <<db, view, page_theme_mode, app_title, nav_index, fab_visible, filter,
                   rows, form, form_types, edit_item, mem, sform, picker>>

\* The dialog's Close button: e.page.dialog.open = False.  The buttons pressed are
\* those of the dialog opened last, which is on top.
close_dialog ==
    /\ ~NoDialog
    /\ dialog' = close_page_dialog(dialog)
    /\ snack' = ""
    /\ io' = NoIO
    /\ UNCHANGED <<db, view, page_theme_mode, app_title, nav_index, fab_visible, filter,
                   rows, form, form_types, edit_item, mem, sform, picker>>

\* Mutant of on_delete_click: no except clause, so a DELETE that raises leaves the
\* handler without a log entry and without a notification.
on_delete_click_uncaught ==
    /\ ~NoDialog
    /\ IF storage = "up"
       THEN /\ items' = delete_item(items, dialog[Len(dialog)].id)
            /\ dialog' = close_page_dialog(dialog)
            /\ snack' = "Item deleted successfully"
            /\ io' = Ok(2)
            /\ rows' = load_data(items', types, filter)
            /\ UNCHANGED <<types, seq_items, settings, seq_settings, storage, view,
                           page_theme_mode, app_title, nav_index, fab_visible, filter,
                           form, form_types, edit_item, mem, sform, picker>>
       ELSE /\ snack' = ""
            /\ io' = Failed(storage, {}, {})
            /\ UNCHANGED <<db, view, page_theme_mode, app_title, nav_index, fab_visible,
                           filter, rows, dialog, form, form_types, edit_item, mem, sform,
                           picker>>

\* Mutant of on_delete_click: a DELETE that removes no row raises, and the handler
\* shows its error notification.
on_delete_click_rowcount ==
    /\ ~NoDialog
    /\ IF storage = "up" /\ dialog[Len(dialog)].id \in {i.id : i \in items}
       THEN /\ items' = delete_item(items, dialog[Len(dialog)].id)
            /\ dialog' = close_page_dialog(dialog)
            /\ snack' = "Item deleted successfully"
            /\ io' = Ok(2)
            /\ rows' = load_data(items', types, filter)
            /\ UNCHANGED <<types, seq_items, settings, seq_settings, storage, view,
                           page_theme_mode, app_title, nav_index, fab_visible, filter,
                           form, form_types, edit_item, mem, sform, picker>>
       ELSE Caught("Error during deletion", "Error deleting item", Call(storage))

\* The DELETE, then close_dialog, the notification and load_data(); a DELETE that
\* raises leaves the dialog open.
on_delete_click ==
    /\ ~NoDialog
    /\ IF storage = "up"
       THEN /\ items' = delete_item(items, dialog[Len(dialog)].id)
            /\ dialog' = close_page_dialog(dialog)
            /\ snack' = "Item deleted successfully"
            /\ io' = Ok(2)
            /\ rows' = load_data(items', types, filter)
            /\ UNCHANGED <<types, seq_items, settings, seq_settings, storage, view,
                           page_theme_mode, app_title, nav_index, fab_visible, filter,
                           form, form_types, edit_item, mem, sform, picker>>
       ELSE Caught("Error during deletion", "Error deleting item", Call(storage))

\* Mutant of on_edit_click: the add button is left as it is.
on_edit_click_button_kept ==
    /\ ~NoDialog
    /\ dialog' = close_page_dialog(dialog)
    /\ fab_visible' = fab_visible
    /\ view' = "edit"
    /\ form' = edit_item_page(dialog[Len(dialog)], fetch_types(storage, types))
    /\ form_types' = TypeIds(fetch_types(storage, types))
    /\ edit_item' = <<dialog[Len(dialog)]>>
    /\ nav_index' = -1
    /\ filter' = NoFilter /\ rows' = << >> /\ picker' = << >>
    /\ mem' = NoSettings /\ sform' = NoSettingsForm
    /\ snack' = fetch_snack(storage)
    /\ io' = fetch_io(storage)
    /\ UNCHANGED <<db, page_theme_mode, app_title>>

\* The dialog's Edit button: close_dialog, the add button hidden, the edit form
\* shown, nav.selected_index = None.
on_edit_click ==
    /\ ~NoDialog
    /\ dialog' = close_page_dialog(dialog)
    /\ fab_visible' = FALSE
    /\ view' = "edit"
    /\ form' = edit_item_page(dialog[Len(dialog)], fetch_types(storage, types))
    /\ form_types' = TypeIds(fetch_types(storage, types))
    /\ edit_item' = <<dialog[Len(dialog)]>>
    /\ nav_index' = -1
    /\ filter' = NoFilter /\ rows' = << >> /\ picker' = << >>
    /\ mem' = NoSettings /\ sform' = NoSettingsForm
    /\ snack' = fetch_snack(storage)
    /\ io' = fetch_io(storage)
    /\ UNCHANGED <<db, page_theme_mode, app_title>>

(***************************************************************************)
(* The settings page.                                                      *)
(***************************************************************************)
\* The user types into the four fields and sets the dark-mode switch.  Typing
\* into the name field runs _on_name_change, which puts the field's text into the
\* app bar.
fill_settings(f, d) ==
    /\ view = "settings"
    /\ sform' = [name |-> f.name, phone |-> f.phone, doctor_name |-> f.doctor_name,
                 doctor_phone |-> f.doctor_phone, dark |-> d]
    /\ app_title' = IF f.name # sform.name THEN f.name ELSE app_title
    /\ snack' = ""
    /\ io' = NoIO
    /\ UNCHANGED <<db, view, page_theme_mode, nav_index, fab_visible, filter, rows, dialog, form,
                   form_types, edit_item, mem, picker>>

\* Mutant of keep_or_replace: the stripped value is written as it is.
keep_or_replace_always(value, previous) == strip(value)

\* field.value.strip() or previous
keep_or_replace(value, previous) == OrDefault(strip(value), previous)

\* The values save_settings resolves from the form and from its own variables.
resolve_settings(f, m) ==
    [pharmacy_name |-> keep_or_replace(f.name, m.pharmacy_name),
     phone_number |-> keep_or_replace(f.phone, m.phone_number),
     doctor_name |-> keep_or_replace(f.doctor_name, m.doctor_name),
     doctor_phone |-> keep_or_replace(f.doctor_phone, m.doctor_phone),
     theme_mode |-> IF f.dark THEN "dark" ELSE "light"]

SettingsRow(id, m) ==
    [id |-> id, pharmacy_name |-> m.pharmacy_name, phone_number |-> m.phone_number,
     doctor_name |-> m.doctor_name, doctor_phone |-> m.doctor_phone,
     theme_mode |-> m.theme_mode]

\* Mutant of write_settings: every save inserts a row.
write_settings_insert(tbl, seq, m) == Append(tbl, SettingsRow(seq + 1, m))

\* The upsert of save_settings: INSERT when SELECT id FROM settings LIMIT 1 finds no
\* row (the row takes the next AUTOINCREMENT id), else UPDATE ... WHERE id = 1.
write_settings(tbl, seq, m) ==
    IF tbl = << >> THEN <<SettingsRow(seq + 1, m)>>
    ELSE [k \in 1..Len(tbl) |-> IF tbl[k].id = 1 THEN SettingsRow(1, m) ELSE tbl[k]]

\* save_settings assigns its variables before the try block: they keep the resolved
\* values also when the write raises.
save_settings ==
    /\ view = "settings"
    /\ mem' = resolve_settings(sform, mem)
    /\ IF storage = "up"
       THEN /\ settings' = write_settings(settings, seq_settings, mem')
            /\ seq_settings' = seq_settings + (Len(settings') - Len(settings))
            /\ app_title' = mem'.pharmacy_name
            /\ snack' = "Settings saved"
            /\ io' = Ok(1)
       ELSE /\ snack' = "Error saving settings"
            /\ io' = Failed(storage, {"Error saving settings"}, {"Error saving settings"})
            /\ UNCHANGED <<settings, seq_settings, app_title>>
    /\ UNCHANGED <<types, items, seq_items, storage, view, page_theme_mode, nav_index,
                   fab_visible, filter, rows, dialog, form, form_types, edit_item, sform,
                   picker>>

\* Mutant of reset_defaults: the four fields are emptied and the values the page
\* holds are set back to the defaults, so that a save writes them.
reset_defaults_values ==
    /\ view = "settings"
    /\ sform' = [sform EXCEPT !.name = MyPharmacy, !.phone = << >>,
                              !.doctor_name = << >>, !.doctor_phone = << >>]
    /\ mem' = [settings_defaults EXCEPT !.theme_mode = mem.theme_mode]
    /\ app_title' = MyPharmacy
    /\ snack' = ""
    /\ io' = NoIO
    /\ UNCHANGED <<db, view, page_theme_mode, nav_index, fab_visible, filter, rows, dialog, form,
                   form_types, edit_item, picker>>

\* The Reset button: the four fields take their defaults, the app bar takes the
\* name field's text; the switch and the values the page holds are left.
reset_defaults ==
    /\ view = "settings"
    /\ sform' = [sform EXCEPT !.name = MyPharmacy, !.phone = << >>,
                              !.doctor_name = << >>, !.doctor_phone = << >>]
    /\ app_title' = MyPharmacy
    /\ snack' = ""
    /\ io' = NoIO
    /\ UNCHANGED <<db, view, page_theme_mode, nav_index, fab_visible, filter, rows, dialog, form,
                   form_types, edit_item, mem, picker>>

(***************************************************************************)
(* The export page: export_to_pdf and the folder picker.                   *)
(***************************************************************************)
\* f"{price:.2f}" for a price held in hundredths.
price_2f(c) == NatStr(c \div Hundredths) \o <<".">> \o zfill2(NatStr(c % Hundredths))

\* f"{exp_month:02d}/{exp_year}"
expiry_text(m, y) == zfill2(str(m)) \o <<"/">> \o str(y)

\* Mutant of pdf_table: the No column holds the item id.
pdf_table_item_id(filtered_data) ==
    [idx \in 1..Len(filtered_data) |->
        LET item == filtered_data[idx]
        IN  <<str(item.id), item.name, item.type_name, str(item.qty),
              price_2f(item.price), expiry_text(item.exp_month, item.exp_year)>>]

\* The body rows of `data` in generate_pdf, under the heading row.
pdf_table(filtered_data) ==
    [idx \in 1..Len(filtered_data) |->
        LET item == filtered_data[idx]
        IN  <<str(idx), item.name, item.type_name, str(item.qty),
              price_2f(item.price), expiry_text(item.exp_month, item.exp_year)>>]

\* _reshape_text_for_pdf: arabic_reshaper and get_display, when they are installed,
\* join and reorder right-to-left letters.  The characters of the model are Latin
\* letters, digits and spaces, which both leave where they are.
reshape_text_for_pdf(text) == IF ~Truthy(text) THEN text ELSE text

\* U+2014 EM DASH between two spaces, as the doctor line joins name and phone.
EmDash == " -- "

\* header_row of generate_pdf: the row with id 1, << >> for None (no such row, or
\* the read raised and the except clause set None).
header_row(st, tbl) ==
    IF st = "up" /\ \E k \in 1..Len(tbl) : tbl[k].id = 1
    THEN <<tbl[CHOOSE k \in 1..Len(tbl) : tbl[k].id = 1]>>
    ELSE << >>

\* Mutant of doctor_line: the line always has the form Doctor: name -- phone.
doctor_line_combined(display_doc_name, display_doc_phone) ==
    IF Truthy(display_doc_name) \/ Truthy(display_doc_phone)
    THEN << <<"Doctor: ">> \o display_doc_name \o <<EmDash>> \o display_doc_phone >>
    ELSE << >>

\* doc_line of generate_pdf: no line, or the one line about the doctor.
doctor_line(display_doc_name, display_doc_phone) ==
    IF Truthy(display_doc_name) \/ Truthy(display_doc_phone)
    THEN LET with_name == IF Truthy(display_doc_name)
                          THEN <<"Doctor: ">> \o display_doc_name ELSE << >>
             doc_line == IF Truthy(display_doc_phone)
                         THEN IF with_name # << >>
                              THEN with_name \o <<EmDash>> \o display_doc_phone
                              ELSE <<"Doctor phone: ">> \o display_doc_phone
                         ELSE with_name
         IN  <<doc_line>>
    ELSE << >>

\* The paragraphs generate_pdf puts above the separator: the title, the phone line,
\* the doctor line.  Each is a sequence of pieces of text; a fixed piece of the
\* source is one element.
pdf_header(hrow) ==
    LET pharmacy_title == IF hrow # << >> /\ Truthy(hrow[1].pharmacy_name)
                          THEN hrow[1].pharmacy_name ELSE MyPharmacy
        pharmacy_phone == IF hrow # << >> /\ Truthy(hrow[1].phone_number)
                          THEN hrow[1].phone_number ELSE << >>
        doctor_name_h == IF hrow # << >> /\ Truthy(hrow[1].doctor_name)
                         THEN hrow[1].doctor_name ELSE << >>
        doctor_phone_h == IF hrow # << >> /\ Truthy(hrow[1].doctor_phone)
                          THEN hrow[1].doctor_phone ELSE << >>
        display_title == reshape_text_for_pdf(pharmacy_title)
        display_phone == reshape_text_for_pdf(pharmacy_phone)
        display_doc_name == reshape_text_for_pdf(doctor_name_h)
        display_doc_phone == reshape_text_for_pdf(doctor_phone_h)
    IN  << <<"<b>">> \o display_title \o <<"</b>">> >>
        \o (IF Truthy(display_phone) THEN << <<"Phone: ">> \o display_phone >> ELSE << >>)
        \o doctor_line(display_doc_name, display_doc_phone)

\* generate_pdf(pdf_path) for the rows export_to_pdf loaded.  The header read is one
\* storage call whose failure is swallowed; `built` says whether doc.build wrote
\* the file.  before is what export_to_pdf itself did in the same event.
generate_pdf(filtered_data, built, before) ==
    /\ snack' = IF built THEN "PDF saved" ELSE "Error generating PDF"
    /\ io' = [opened |-> before.opened + Call(storage).opened,
              left |-> before.left + Call(storage).left,
              log |-> before.log \cup (IF built THEN {} ELSE {"Error generating PDF"}),
              errors |-> before.errors \cup (IF built THEN {} ELSE {"Error generating PDF"}),
              pdf |-> IF built THEN pdf_table(filtered_data) ELSE << >>,
              header |-> IF built THEN pdf_header(header_row(storage, settings))
                         ELSE << >>]

\* Mutant of export_to_pdf: the list is not tested for being empty.
export_to_pdf_unchecked(android, built) ==
    /\ view = "export"
    /\ PageIdle
    /\ rows' = table_rows(storage, items, types, filter)
    /\ LET filtered_data == rows'
       IN  IF android
           THEN /\ generate_pdf(filtered_data, built, load_io(storage))
                /\ picker' = << >>
           ELSE /\ picker' = <<filtered_data>>
                /\ snack' = ""
                /\ io' = load_io(storage)
    /\ UNCHANGED <<db, view, page_theme_mode, app_title, nav_index, fab_visible, filter,
                   dialog, form, form_types, edit_item, mem, sform>>

\* The "Export PDF" button.  android: the file goes to the Download directory in
\* the same event; elsewhere the folder picker opens and on_result continues.
export_to_pdf(android, built) ==
    /\ view = "export"
    /\ PageIdle
    /\ rows' = table_rows(storage, items, types, filter)
    /\ LET filtered_data == rows'
       IN  IF filtered_data = << >>
           THEN /\ snack' = "No data to export"
                /\ io' = [load_io(storage) EXCEPT !.errors = @ \cup {"No data to export"}]
                /\ picker' = << >>
           ELSE IF android
           THEN /\ generate_pdf(filtered_data, built, load_io(storage))
                /\ picker' = << >>
           ELSE /\ picker' = <<filtered_data>>
                /\ snack' = ""
                /\ io' = load_io(storage)
    /\ UNCHANGED <<db, view, page_theme_mode, app_title, nav_index, fab_visible, filter,
                   dialog, form, form_types, edit_item, mem, sform>>

\* file_picker.on_result: a folder was chosen, or the picker was dismissed.
on_result(chosen, built) ==
    /\ picker # << >>
    /\ picker' = << >>
    /\ IF chosen
       THEN generate_pdf(picker[1], built, NoIO)
       ELSE /\ snack' = "No folder selected"
            /\ io' = [NoIO EXCEPT !.errors = {"No folder selected"}]
    /\ UNCHANGED <<db, view, page_theme_mode, app_title, nav_index, fab_visible, filter,
                   rows, dialog, form, form_types, edit_item, mem, sform>>

(***************************************************************************)
(* Other writers of the database file.  The program keeps no connection    *)
(* open and takes no lock, so a second instance of the program, or direct  *)
(* administration of the file, may write between two of its handlers.      *)
(***************************************************************************)
\* A second instance runs its on_delete_click on one of the stored items.
other_instance_delete ==
    /\ \E i \in items : items' = delete_item(items, i.id)
    /\ UNCHANGED <<types, seq_items, settings, seq_settings, storage, ui>>

\* Type ids that direct administration removes in the model.
AdminTypes == {2}

\* DELETE FROM types WHERE id = ? on a connection as get_connection opens it:
\* foreign keys are not enforced, so ON DELETE CASCADE does not act.
delete_type(tys, its, id) == <<{t \in tys : t.id # id}, its>>

admin_delete_type ==
    /\ \E t \in AdminTypes :
          /\ t \in TypeIds(types)
          /\ types' = delete_type(types, items, t)[1]
          /\ items' = delete_type(types, items, t)[2]
    /\ UNCHANGED <<seq_items, settings, seq_settings, storage, ui>>

\* Settings rows that direct administration may remove before the model stops it
\* (each removal makes the next INSERT take a new AUTOINCREMENT id).
MaxSettingsIds == 2

\* DELETE FROM settings by direct administration of the file.
admin_delete_settings ==
    /\ settings # << >>
    /\ seq_settings < MaxSettingsIds
    /\ settings' = << >>
    /\ UNCHANGED <<types, items, seq_items, seq_settings, storage, ui>>

\* The condition of the database file changes under the program.
storage_change(st) ==
    /\ st \in StorageStates
    /\ st # storage
    /\ storage' = st
    /\ UNCHANGED <<types, items, seq_items, settings, seq_settings, ui>>

(***************************************************************************)
(* Program start: main and init_db.                                        *)
(***************************************************************************)
FarmaApp == <<"F", "a", "r", "m", "a", "A", "p", "p">>

\* main's read of the title: the pharmacy name of the row with id 1, "FarmaApp" when
\* there is no such row, its name is empty, or the read raises.
initial_pharmacy_name(st, tbl) ==
    IF st = "up" /\ \E k \in 1..Len(tbl) : tbl[k].id = 1 /\ Truthy(tbl[k].pharmacy_name)
    THEN (tbl[CHOOSE k \in 1..Len(tbl) : tbl[k].id = 1]).pharmacy_name
    ELSE FarmaApp

\* Mutant of init_db: the default settings row is inserted without the COUNT(*) test.
init_db_always_seed(tys, tbl, seq) ==
    [types |-> IF tys = {} THEN SeedTypes ELSE tys,
     settings |-> Append(tbl, [SeedSettings EXCEPT !.id = seq + 1]),
     seq_settings |-> seq + 1]

\* init_db when every statement runs: CREATE ... IF NOT EXISTS changes no row; the
\* eight types are inserted when types is empty, the default settings row when
\* settings is empty.  (types is empty only on a new file, where the ids are 1..8.)
init_db(tys, tbl, seq) ==
    [types |-> IF tys = {} THEN SeedTypes ELSE tys,
     settings |-> IF tbl = << >> THEN <<[SeedSettings EXCEPT !.id = seq + 1]>> ELSE tbl,
     seq_settings |-> IF tbl = << >> THEN seq + 1 ELSE seq]

\* The page main leaves when it returns from its except clause: no body, no
\* navigation bar, no app bar, no add button.
BlankPage ==
    /\ view' = "blank"
    /\ nav_index' = -1
    /\ fab_visible' = FALSE
    /\ filter' = NoFilter /\ rows' = << >> /\ dialog' = << >> /\ picker' = << >>
    /\ form' = BlankForm /\ form_types' = {} /\ edit_item' = << >>
    /\ mem' = NoSettings /\ sform' = NoSettingsForm

\* Mutant of main: the except clause around init_db does not return.
main_no_return ==
    /\ IF storage = "up"
       THEN /\ types' = init_db(types, settings, seq_settings).types
            /\ settings' = init_db(types, settings, seq_settings).settings
            /\ seq_settings' = init_db(types, settings, seq_settings).seq_settings
            /\ io' = Ok(3)
            /\ snack' = ""
       ELSE /\ io' = [opened |-> 3 * Call(storage).opened, left |-> 3 * Call(storage).left,
                      log |-> {"Database initialization failed",
                               "Error loading pharmacy_name at startup",
                               "Error loading data"},
                      errors |-> {"Database error", "Error loading data"},
                      pdf |-> << >>, header |-> << >>]
            /\ snack' = "Error loading data"
            /\ UNCHANGED <<types, settings, seq_settings>>
    /\ BackToList(items, types')
    /\ page_theme_mode' = "light"
    /\ app_title' = initial_pharmacy_name(storage, settings')
    /\ UNCHANGED <<items, seq_items, storage>>

\* Mutant of main: the page takes the theme stored in the settings row.
main_stored_theme ==
    /\ IF storage = "up"
       THEN /\ types' = init_db(types, settings, seq_settings).types
            /\ settings' = init_db(types, settings, seq_settings).settings
            /\ seq_settings' = init_db(types, settings, seq_settings).seq_settings
            /\ io' = Ok(3)
            /\ snack' = ""
            /\ BackToList(items, types')
            /\ page_theme_mode' = load_settings(settings').theme_mode
            /\ app_title' = initial_pharmacy_name(storage, settings')
       ELSE /\ io' = Failed(storage, {"Database initialization failed"}, {"Database error"})
            /\ snack' = "Database error"
            /\ BlankPage
            /\ page_theme_mode' = "system"
            /\ app_title' = << >>
            /\ UNCHANGED <<types, settings, seq_settings>>
    /\ UNCHANGED <<items, seq_items, storage>>

\* The program is started (again) on the database file: main.  init_db raises when
\* the file cannot be opened and when its first statement fails; main logs and
\* shows the error and returns.  Otherwise main reads the title, builds the page
\* and shows the items list.
main ==
    /\ IF storage = "up"
       THEN /\ types' = init_db(types, settings, seq_settings).types
            /\ settings' = init_db(types, settings, seq_settings).settings
            /\ seq_settings' = init_db(types, settings, seq_settings).seq_settings
            /\ io' = Ok(3)
            /\ snack' = ""
            /\ BackToList(items, types')
            /\ page_theme_mode' = "light"
            /\ app_title' = initial_pharmacy_name(storage, settings')
       ELSE /\ io' = Failed(storage, {"Database initialization failed"}, {"Database error"})
            /\ snack' = "Database error"
            /\ BlankPage
            /\ page_theme_mode' = "system"
            /\ app_title' = << >>
            /\ UNCHANGED <<types, settings, seq_settings>>
    /\ UNCHANGED <<items, seq_items, storage>>

(***************************************************************************)
(* Specifications.                                                         *)
(***************************************************************************)
\* After main(): init_db on a new file, the items list shown.
Init ==
    /\ types = SeedTypes
    /\ items = {}
    /\ seq_items = 0
    /\ settings = <<SeedSettings>>
    /\ view = "list"
    /\ nav_index = 0
    /\ fab_visible = TRUE
    /\ filter = FreshFilter
    /\ rows = << >>
    /\ dialog = << >>
    /\ form = BlankForm
    /\ form_types = {}
    /\ edit_item = << >>
    /\ mem = NoSettings
    /\ sform = NoSettingsForm
    /\ picker = << >>
    /\ seq_settings = 1
    /\ storage = "up"
    /\ io = Ok(3)
    /\ page_theme_mode = "light"
    /\ app_title = MyPharmacy
    /\ snack = ""

\* The handlers of the item pages.
ItemsNext ==
    \/ \E index \in 0..3 : update_page(index)
    \/ open_add_item
    \/ \E f \in FormInputs : fill_form(f)
    \/ add_save_item
    \/ cancel_add
    \/ edit_save_item
    \/ cancel_edit
    \/ \E f \in FilterInputs : select_filter(f)
    \/ apply_filter
    \/ \E k \in 1..MaxItems : on_row_select(k)
    \/ close_dialog
    \/ on_delete_click
    \/ on_edit_click

\* The handlers of the settings page.
SettingsNext ==
    \/ \E f \in SettingsInputs, d \in BOOLEAN : fill_settings(f, d)
    \/ save_settings
    \/ reset_defaults

\* The whole program: one user, one instance.
Next == ItemsNext \/ SettingsNext

Spec == Init /\ [][Next]_vars

\* The item pages and the settings page share no storage table and no page state:
\* the handlers of one leave the variables of the other unchanged.  Each is checked
\* with the navigation bar and its own handlers.
SpecItems == Init /\ [][ItemsNext]_vars

SettingsPageNext == SettingsNext \/ \E index \in 0..3 : update_page(index)

SpecSettings == Init /\ [][SettingsPageNext]_vars

\* The item pages together with a second instance of the program on the same file.
OtherNext == ItemsNext \/ other_instance_delete

SpecOther == Init /\ [][OtherNext]_vars

\* The item pages together with direct administration of the types table.
AdminNext == ItemsNext \/ admin_delete_type

SpecAdmin == Init /\ [][AdminNext]_vars

\* Settings form contents of the runs that start the program again.
StartSettingsInputs ==
    { [name |-> << >>, phone |-> << >>, doctor_name |-> << >>, doctor_phone |-> << >>],
      [name |-> <<" ", "N", " ">>, phone |-> << >>, doctor_name |-> << >>,
       doctor_phone |-> Spaces] }

\* The program is closed and started again at any moment, between the handlers that
\* write the items and settings tables.
StartNext ==
    \/ main
    \/ \E index \in 0..3 : update_page(index)
    \/ open_add_item
    \/ \E f \in GoodForms : fill_form(f)
    \/ add_save_item
    \/ edit_save_item
    \/ \E k \in 1..MaxItems : on_row_select(k)
    \/ on_delete_click
    \/ on_edit_click
    \/ \E f \in StartSettingsInputs, d \in BOOLEAN : fill_settings(f, d)
    \/ save_settings

SpecStart == Init /\ [][StartNext]_vars

\* The settings page, program starts, a database file whose condition changes and
\* direct administration of the settings table.
SettingsEnvNext ==
    \/ SettingsPageNext
    \/ main
    \/ admin_delete_settings
    \/ \E st \in StorageStates : storage_change(st)

SpecSettingsEnv == Init /\ [][SettingsEnvNext]_vars

\* Form contents of the runs in which the database file fails.
FaultForms == {f \in GoodForms : f.name = <<"A">>}

\* Every handler that makes a storage call, program starts, and a database file
\* whose condition changes between two events.
FaultsNext ==
    \/ \E st \in StorageStates : storage_change(st)
    \/ main
    \/ \E index \in 0..3 : update_page(index)
    \/ open_add_item
    \/ \E f \in FaultForms : fill_form(f)
    \/ add_save_item
    \/ cancel_add
    \/ edit_save_item
    \/ cancel_edit
    \/ apply_filter
    \/ \E k \in 1..MaxItems : on_row_select(k)
    \/ close_dialog
    \/ on_delete_click
    \/ on_edit_click
    \/ \E android, built \in BOOLEAN : export_to_pdf(android, built)
    \/ \E chosen, built \in BOOLEAN : on_result(chosen, built)
    \/ \E f \in StartSettingsInputs : fill_settings(f, FALSE)
    \/ save_settings

SpecFaults == Init /\ [][FaultsNext]_vars

\* "Paracetamol"
Paracetamol == <<"P", "a", "r", "a", "c", "e", "t", "a", "m", "o", "l">>

\* Form contents of the runs that export: Paracetamol, Tablet, 10, 5.50, 12/2025 and
\* two of the forms above.
ExportForms ==
    { [name |-> Paracetamol, quantity |-> <<"1", "0">>, price |-> <<"5", ".", "5", "0">>,
       month |-> <<"1", "2">>, year |-> <<"2", "0", "2", "5">>, type |-> <<"1">>] }
    \cup {f \in GoodForms : f.type = <<"2">>}

\* The export page with the handlers that fill and change the list it exports.
ExportNext ==
    \/ \E index \in 0..1 : update_page(index)
    \/ open_add_item
    \/ \E f \in ExportForms : fill_form(f)
    \/ add_save_item
    \/ \E f \in FilterInputs : select_filter(f)
    \/ apply_filter
    \/ \E k \in 1..MaxItems : on_row_select(k)
    \/ on_delete_click
    \/ \E android, built \in BOOLEAN : export_to_pdf(android, built)
    \/ \E chosen, built \in BOOLEAN : on_result(chosen, built)

SpecExport == Init /\ [][ExportNext]_vars

\* Settings form contents of the runs that export with a header: the pharmacy's
\* name, the doctor's name and the doctor's phone, each alone.
ReportSettingsInputs ==
    { f \in SettingsInputs : strip(f.phone) = << >> /\
          Cardinality({strip(f.name), strip(f.doctor_name), strip(f.doctor_phone)}) = 2 }

\* The export page, the settings page that writes the header's values, one item to
\* export, and the database file failing or losing its settings row between events.
ReportNext ==
    \/ \E index \in 0..2 : update_page(index)
    \/ open_add_item
    \/ fill_form(BaseForm)
    \/ add_save_item
    \/ \E f \in ReportSettingsInputs : fill_settings(f, FALSE)
    \/ save_settings
    \/ \E android, built \in BOOLEAN : export_to_pdf(android, built)
    \/ \E chosen, built \in BOOLEAN : on_result(chosen, built)
    \/ \E st \in StorageStates : storage_change(st)
    \/ admin_delete_settings

SpecReport == Init /\ [][ReportNext]_vars

\* Filter dropdown contents of the runs with every handler: a range that holds the
\* forms' expiry dates and one whose start is after its end.
UIFilters == {f \in FilterInputs : f.start_month = <<"0", "3">> /\ Truthy(f.end_month)}

\* Every handler of the user interface, the theme button among them; the program
\* is the only writer of the file, which stays in good condition.
UINext ==
    \/ \E index \in 0..3 : update_page(index)
    \/ toggle_theme
    \/ open_add_item
    \/ \E f \in FaultForms : fill_form(f)
    \/ add_save_item
    \/ cancel_add
    \/ edit_save_item
    \/ cancel_edit
    \/ \E f \in UIFilters : select_filter(f)
    \/ apply_filter
    \/ \E k \in 1..MaxItems : on_row_select(k)
    \/ close_dialog
    \/ on_delete_click
    \/ on_edit_click
    \/ \E android, built \in BOOLEAN : export_to_pdf(android, built)
    \/ \E chosen, built \in BOOLEAN : on_result(chosen, built)
    \/ \E f \in StartSettingsInputs, d \in BOOLEAN : fill_settings(f, d)
    \/ save_settings
    \/ reset_defaults

SpecUI == Init /\ [][UINext]_vars

\* The theme button, the settings page with its dark-mode switch, and program
\* starts.
ThemeNext ==
    \/ main
    \/ toggle_theme
    \/ \E index \in 0..3 : update_page(index)
    \/ \E f \in SettingsInputs, d \in BOOLEAN : fill_settings(f, d)
    \/ save_settings
    \/ reset_defaults
    \/ open_add_item
    \/ cancel_add

SpecTheme == Init /\ [][ThemeNext]_vars

(***************************************************************************)
(* Properties.                                                             *)
(***************************************************************************)
ErrorMessages ==
    {"Please enter the item name", "Quantity must be a positive integer",
     "Price must be a valid positive number", "Please select expiry month and year",
     "Please select a medicine type", "DB Error", "Error during deletion"}

ItemIds(its) == {i.id : i \in its}

RowSet(sq) == {sq[k] : k \in 1..Len(sq)}

\* The name_en of the type with this id.
TypeName(tys, id) == (CHOOSE t \in tys : t.id = id).name_en

\* C1: an add whose fields pass validation makes the unfiltered list one row longer;
\* the new row carries the submitted name, type, quantity, price, expiry month and
\* expiry year, and every row listed before is still listed, unchanged.  The list
\* shown after the add is that unfiltered list.
C1_AddAppendsOneRow ==
    [][ (view = "add" /\ validate(form) = "ok" /\ add_save_item) =>
        LET listed == select_items(items, types)
            after == select_items(items', types')
        IN  /\ rows' = after
            /\ Len(after) = Len(listed) + 1
            /\ RowSet(listed) \subseteq RowSet(after)
            /\ \E r \in RowSet(after) \ RowSet(listed) :
                  /\ r.id \notin ItemIds(items)
                  /\ r.name = strip(form.name)
                  /\ r.type_name = TypeName(types, int(form.type))
                  /\ r.qty = int(form.quantity)
                  /\ r.price = float(form.price)
                  /\ r.exp_month = int(form.month)
                  /\ r.exp_year = int(form.year) ]_vars

\* Reached: the list shows two stored rows and the row added last, with the values
\* of the form " B ", 3, 12, 06/2024, type 2 (Syrup).
C1_Witness ==
    /\ view = "list"
    /\ snack = "Item added successfully"
    /\ Len(rows) = 3
    /\ \E r \in RowSet(rows) :
          /\ r.id = 3 /\ r.name = <<"B">> /\ r.type_name = "Syrup" /\ r.qty = 3
          /\ r.price = 1200 /\ r.exp_month = 6 /\ r.exp_year = 2024

\* (year, month) of a listed row, compared lexicographically.
ExpiryLE(a, b) ==
    a.exp_year < b.exp_year \/ (a.exp_year = b.exp_year /\ a.exp_month <= b.exp_month)

\* C2: whatever adds, updates and deletes came before, the table of the list and
\* export pages, filtered or not, is in ascending (expiry_year, expiry_month) order.
C2_ListOrderedByExpiry ==
    \A k \in 1..(Len(rows) - 1) : ExpiryLE(rows[k], rows[k + 1])

\* Reached: two rows under a filter that is set, the row inserted later listed first.
C2_Witness ==
    /\ Len(rows) = 2
    /\ FilterSet(filter)
    /\ rows[1].id > rows[2].id
    /\ rows[1].exp_year = 2024 /\ rows[2].exp_year = 2025

\* A quantity that is not a positive whole number, a price that is not a positive
\* decimal number.
BadQuantity(s) == ~(IsDecimal(s) /\ DigitsValue(s) > 0)

BadPrice(s) ==
    ~(/\ \A k \in 1..Len(s) : s[k] \in DecimalSet \cup {"."}
      /\ Cardinality({k \in 1..Len(s) : s[k] = "."}) <= 1
      /\ \E k \in 1..Len(s) : s[k] \in DecimalSet \ {"0"})

\* C3: Save on the add form or the edit form with a quantity that is zero, negative
\* or no integer, or a price that is zero, negative or no number, is rejected with
\* an error and the form stays; no step from such a form inserts or changes a row.
C3_BadQuantityOrPriceRejected ==
    [][ (view \in {"add", "edit"} /\ (BadQuantity(form.quantity) \/ BadPrice(form.price))) =>
        /\ items' = items
        /\ seq_items' = seq_items
        /\ (add_save_item \/ edit_save_item) =>
              (snack' \in ErrorMessages /\ view' = view) ]_vars

\* Reached: the edit form of a stored item, rejected for its price "0.0".
C3_Witness ==
    /\ view = "edit"
    /\ form.price = <<"0", ".", "0">>
    /\ snack = "Price must be a valid positive number"
    /\ edit_item[1].id \in ItemIds(items)

\* Months since year 0 of a (year, month): month granularity, no day.
MonthNumber(y, m) == y * 12 + m

MonthInRange(r, f) ==
    /\ MonthNumber(int(f.start_year), int(f.start_month)) <= MonthNumber(r.exp_year, r.exp_month)
    /\ MonthNumber(r.exp_year, r.exp_month) <= MonthNumber(int(f.end_year), int(f.end_month))

\* A step in which load_data runs with the dropdowns as they are.
LoadStep == apply_filter \/ on_delete_click

\* C4: when all four filter values are set, load_data lists exactly the items whose
\* (expiry_year, expiry_month) lies between (start year, start month) and (end year,
\* end month), both ends included, in listing order.
C4_FilterInclusiveByMonth ==
    [][ (FilterSet(filter) /\ LoadStep) =>
        rows' = SelectSeq(select_items(items', types'),
                          LAMBDA r : MonthInRange(r, filter)) ]_vars

ExpiryOf(r) == <<r.exp_year, r.exp_month>>

\* Reached: items expiring (2024,1), (2024,6), (2025,1) and the range
\* (2024,3)..(2025,1) applied: the table holds (2024,6) and (2025,1).
C4_Witness ==
    /\ snack = "Filter applied successfully"
    /\ filter = FilterOf(<<"0", "3">>, <<"2", "0", "2", "4">>, <<"0", "1">>, <<"2", "0", "2", "5">>)
    /\ {<<i.expiry_year, i.expiry_month>> : i \in items} = {<<2024, 1>>, <<2024, 6>>, <<2025, 1>>}
    /\ Cardinality(items) = 3
    /\ [k \in 1..Len(rows) |-> ExpiryOf(rows[k])] = <<(<<2024, 6>>), (<<2025, 1>>)>>

\* C5: when one of the four filter values is unset, load_data lists every item, in
\* the order of the unfiltered list, and shows no error.
C5_PartialFilterIgnored ==
    [][ (~FilterSet(filter) /\ LoadStep) =>
        /\ rows' = select_items(items', types')
        /\ snack' \notin ErrorMessages ]_vars

\* Reached: a start month without an end month applied over two items, one of them
\* before the start.
C5_Witness ==
    /\ snack = "Filter applied successfully"
    /\ Truthy(filter.start_month) /\ ~Truthy(filter.end_month)
    /\ Len(rows) = 2
    /\ rows[1].exp_year = 2024 /\ rows[1].exp_month = 1

\* C6: a Delete of an item id that is no longer stored (the id was deleted before)
\* shows no error and leaves the items table as it was.
C6_DeleteIdempotent ==
    [][ (~NoDialog /\ dialog[1].id \notin ItemIds(items) /\ on_delete_click) =>
        /\ items' = items
        /\ seq_items' = seq_items
        /\ snack' = "Item deleted successfully" ]_vars

\* Reached: the details dialog of an item that the other instance has already
\* deleted, other rows still stored: its Delete button repeats the delete.
C6_Witness ==
    /\ ~NoDialog
    /\ dialog[1].id \notin ItemIds(items)
    /\ \E i \in items : i.id > dialog[1].id
    /\ \E i \in items : i.id < dialog[1].id

\* The four text fields of the settings form and the columns they are saved to.
SettingsFields ==
    {<<"name", "pharmacy_name">>, <<"phone", "phone_number">>,
     <<"doctor_name", "doctor_name">>, <<"doctor_phone", "doctor_phone">>}

IsBlank(s) == \A k \in 1..Len(s) : s[k] = " "

\* The settings row that settings_page and the report read (id = 1).
StoredSettings(tbl) == tbl[CHOOSE k \in 1..Len(tbl) : tbl[k].id = 1]

ValidationMessages ==
    {"Please enter the item name", "Quantity must be a positive integer",
     "Price must be a valid positive number", "Please select expiry month and year",
     "Please select a medicine type"}

\* The name is empty after trimming, or the expiry month, the expiry year or the
\* type has no value.
MissingField(f) ==
    ~Truthy(strip(f.name)) \/ ~Truthy(f.month) \/ ~Truthy(f.year) \/ ~Truthy(f.type)

SaveStep == add_save_item \/ edit_save_item

\* C8: deleting a row of types deletes every item that references it: after the
\* delete no item row references the removed type.
C8_TypeDeleteCascades ==
    [][ \A t \in TypeIds(types) \ TypeIds(types') :
            \A i \in items' : i.type_id # t ]_vars

\* C9: every row that add or update writes has a type_id that is the id of a row of
\* types at the time of the write; a write with any other type_id is rejected.
C9_WriteNeedsExistingType ==
    [][ (add_save_item \/ edit_save_item) =>
        \A i \in items' \ items : i.type_id \in TypeIds(types) ]_vars

\* C10: Save on the edit form of an item id that is not stored reports an error,
\* not success.
C10_UpdateMissingIdFails ==
    [][ (view = "edit" /\ edit_item[1].id \notin ItemIds(items) /\ validate(form) = "ok"
         /\ edit_save_item) =>
        snack' \in ErrorMessages ]_vars

\* C11: Save on the add form or the edit form with an empty or whitespace-only name,
\* no expiry month or year, or no type shows an error that names a field of the
\* form, opens no storage connection and leaves the items table as it was.
C11_MissingFieldNamedNoStorage ==
    [][ (view \in {"add", "edit"} /\ MissingField(form) /\ SaveStep) =>
        /\ snack' \in ValidationMessages
        /\ io'.opened = 0
        /\ items' = items
        /\ seq_items' = seq_items ]_vars

\* C12: starting the program again (init_db on the same file), at any moment between
\* item and settings writes, leaves the eight seeded type rows and one settings
\* row, and changes no row of types, items or settings.
C12_InitDbIdempotent ==
    [][ main =>
        /\ types' = SeedTypes /\ Cardinality(types') = 8
        /\ Len(settings') = 1
        /\ types' = types /\ items' = items /\ settings' = settings ]_vars

\* Reached: the program started again (three storage calls) on a file that holds an
\* item and a saved pharmacy name "N" with the dark theme.
C12_Witness ==
    /\ io.opened = 3
    /\ view = "list"
    /\ items # {}
    /\ Len(rows) = Cardinality(items)
    /\ StoredSettings(settings).pharmacy_name = <<"N">>
    /\ StoredSettings(settings).theme_mode = "dark"

\* C13: after the first start and after any settings saves and restarts, the
\* settings table holds exactly one row, and its id is 1.
C13_OneSettingsRow == Len(settings) = 1 /\ settings[1].id = 1

\* Reached: a second save in a row, which stored the dark theme over a saved name.
C13_Witness ==
    /\ snack = "Settings saved"
    /\ mem.theme_mode = "dark"
    /\ settings = <<SettingsRow(1, mem)>>
    /\ mem.pharmacy_name = <<"N">>
    /\ sform.name = << >>

\* C14: a settings save that reports success is followed by a load that returns
\* the values the save resolved: the save inserted or updated the row load reads.
C14_SaveThenLoad ==
    [][ (save_settings /\ snack' = "Settings saved") =>
        load_settings(settings') = resolve_settings(sform, mem) ]_vars

\* C15: no event returns with a storage connection it opened and did not close,
\* whether its storage calls returned or raised.
C15_ConnectionsClosed == io.left = 0

\* A step of list, add, update, delete or settings save that reaches its storage call.
StorageOp ==
    \/ \E index \in 0..1 : update_page(index)
    \/ apply_filter
    \/ cancel_add
    \/ cancel_edit
    \/ \E android, built \in BOOLEAN : export_to_pdf(android, built)
    \/ (add_save_item /\ validate(form) = "ok")
    \/ (edit_save_item /\ validate(form) = "ok")
    \/ on_delete_click
    \/ save_settings

\* A step in which generate_pdf runs and doc.build fails.
PdfFails ==
    \/ (export_to_pdf(TRUE, FALSE) /\ rows' # << >>)
    \/ on_result(TRUE, FALSE)

\* C16: when the storage call of list, add, update, delete or settings save fails,
\* and when PDF generation fails, the handler logs the error and shows an error
\* notification, and the three tables are as they were before the event.
C16_FailuresCaughtAndShown ==
    [][ /\ (storage # "up" /\ StorageOp) =>
              (io'.log # {} /\ io'.errors # {} /\ io'.log \subseteq io'.errors \cup
                  {"Error saving item", "Error updating item", "Error deleting item"}
               /\ db' = db)
        /\ PdfFails =>
              ("Error generating PDF" \in io'.log /\ "Error generating PDF" \in io'.errors
               /\ io'.pdf = << >> /\ db' = db) ]_vars

\* Reached: the Delete button of the details dialog pressed while the database file
\* fails: the error is logged and shown, the dialog is still open and the item is
\* still stored.
C16_Witness ==
    /\ storage = "failing"
    /\ ~NoDialog
    /\ snack = "Error during deletion"
    /\ io.log = {"Error deleting item"}
    /\ dialog[1].id \in ItemIds(items)

\* C17: when the database file cannot be opened at program start, main shows the
\* error and returns: no view, no navigation bar and no add button is built, the
\* start made no storage call beyond the failed open, and nothing but a new start
\* changes the page afterwards.
C17_OpenFailureAbortsStartup ==
    [][ /\ (storage = "unopenable" /\ main) =>
              /\ view' = "blank" /\ nav_index' = -1 /\ ~fab_visible'
              /\ rows' = << >>
              /\ snack' = "Database error" /\ "Database error" \in io'.errors
              /\ io'.opened = 0
              /\ db' = db
        /\ (view = "blank" /\ ui' # ui) => main ]_vars

\* Reached: the program started on a file that holds an item and cannot be opened.
C17_Witness ==
    /\ view = "blank"
    /\ storage = "unopenable"
    /\ snack = "Database error"
    /\ io.opened = 0
    /\ items # {}

\* C18 as claimed: a start in which the file opens and a statement of init_db fails
\* is logged and goes on to build the page.
C18_StatementFailureContinues ==
    [][ (storage = "failing" /\ main) =>
        (view' # "blank" /\ "Database initialization failed" \in io'.log) ]_vars

\* C18 as amended: a failure to open the file and a failing statement of init_db
\* both are logged, shown and abort the start; the page is built exactly when
\* init_db returns.
C18_AnyInitFailureAborts ==
    [][ main =>
        /\ (view' = "blank") <=> (storage # "up")
        /\ storage # "up" =>
              /\ io'.log = {"Database initialization failed"}
              /\ io'.errors = {"Database error"}
              /\ db' = db
        /\ storage = "up" => (view' = "list" /\ io'.log = {} /\ io'.errors = {}) ]_vars

\* Reached: the program started on a file that opens and fails at the first
\* statement of init_db; the connection is the one init_db opened.
C18_Witness ==
    /\ view = "blank"
    /\ storage = "failing"
    /\ io.opened = 1
    /\ io.log = {"Database initialization failed"}

\* The text of a table cell that holds a whole number: decimal digits, no sign, no
\* leading zero.
NumberText(n) == CHOOSE t \in {NatStr(k) : k \in 0..n} : DigitsValue(t) = n

\* C19: the table of an exported PDF has one body row per row of the filtered list
\* as it stands, in the order of the list, numbered 1..N, each with the item's name,
\* type name, quantity, price with two decimals and expiry as MM/YYYY.
C19_PdfRowsMatchList ==
    io.pdf # << >> =>
        /\ rows = load_data(items, types, filter)
        /\ Len(io.pdf) = Len(rows)
        /\ \A k \in 1..Len(rows) :
              /\ io.pdf[k][1] = NumberText(k)
              /\ io.pdf[k][2] = rows[k].name
              /\ io.pdf[k][3] = rows[k].type_name
              /\ io.pdf[k][4] = NumberText(rows[k].qty)
              /\ Len(io.pdf[k][5]) >= 4
              /\ io.pdf[k][5][Len(io.pdf[k][5]) - 2] = "."
              /\ float(io.pdf[k][5]) = rows[k].price
              /\ Len(io.pdf[k][6]) = 7 /\ io.pdf[k][6][3] = "/"
              /\ int(SubSeq(io.pdf[k][6], 1, 2)) = rows[k].exp_month
              /\ int(SubSeq(io.pdf[k][6], 4, 7)) = rows[k].exp_year

\* Reached: the database holds the single item Paracetamol, Tablet, 10, 5.50,
\* 12/2025 and the PDF table is the one row 1 | Paracetamol | Tablet | 10 | 5.50 |
\* 12/2025.
C19_Witness ==
    /\ Cardinality(items) = 1
    /\ snack = "PDF saved"
    /\ io.pdf = << <<(<<"1">>), Paracetamol, "Tablet", (<<"1", "0">>),
                     (<<"5", ".", "5", "0">>),
                     (<<"1", "2", "/", "2", "0", "2", "5">>)>> >>

\* C20: opening the settings page when the settings table has no row with id 1, or
\* when the read fails, gives the defaults: pharmacy name "My Pharmacy", empty phone,
\* doctor name and doctor phone, theme "light"; a failed read is logged and no error
\* is shown to the user.
C20_LoadDefaults ==
    [][ (update_page(2) /\ (storage # "up" \/ \A k \in 1..Len(settings) : settings[k].id # 1)) =>
            /\ view' = "settings"
            /\ mem'.pharmacy_name = MyPharmacy
            /\ mem'.phone_number = << >>
            /\ mem'.doctor_name = << >>
            /\ mem'.doctor_phone = << >>
            /\ mem'.theme_mode = "light"
            /\ sform'.name = MyPharmacy /\ sform'.phone = << >>
            /\ sform'.doctor_name = << >>
            /\ snack' = "" /\ io'.errors = {}
            /\ (storage # "up") <=> (io'.log = {"Error loading settings from DB"})
            /\ db' = db ]_vars

\* Reached: the settings page was opened while the read failed, the table holding a
\* row with id 1 and another pharmacy name; the page shows the defaults and the
\* failure is in the log.
C20_Witness ==
    /\ view = "settings"
    /\ storage # "up"
    /\ io.log = {"Error loading settings from DB"}
    /\ \E k \in 1..Len(settings) : settings[k].id = 1 /\ settings[k].pharmacy_name = <<"N">>
    /\ mem.pharmacy_name = MyPharmacy
    /\ sform.name = MyPharmacy

\* Reached: the settings page was opened with no row in the table, the read itself
\* succeeding; the page shows the defaults and nothing is logged.
C20_WitnessNoRow ==
    /\ view = "settings"
    /\ storage = "up"
    /\ settings = << >>
    /\ io = Ok(1)
    /\ mem = [pharmacy_name |-> MyPharmacy, phone_number |-> << >>, doctor_name |-> << >>,
              doctor_phone |-> << >>, theme_mode |-> "light"]

\* A step that wrote a PDF: export_to_pdf on android, or on_result with a folder.
PdfWritten ==
    /\ snack' = "PDF saved"
    /\ \/ \E android, built \in BOOLEAN : export_to_pdf(android, built)
       \/ \E chosen, built \in BOOLEAN : on_result(chosen, built)

\* The row the header is read from, when the read returns one.
HeaderRead == storage = "up" /\ \E k \in 1..Len(settings) : settings[k].id = 1

\* The lines of a written header below the title.
HeaderLines(h) == SubSeq(h, 2, Len(h))

\* C21 (as claimed): a written PDF's header has a phone line exactly when the stored
\* pharmacy phone is non-empty, and exactly one doctor line, beginning "Doctor: ",
\* exactly when the stored doctor name or doctor phone is non-empty; with both
\* stored the line is Doctor: name -- phone.
C21_DoctorLineCombined ==
    [][ (PdfWritten /\ HeaderRead) =>
          LET row == StoredSettings(settings)
              lines == HeaderLines(io'.header)
              phones == {k \in 1..Len(lines) : lines[k][1] = "Phone: "}
              doctors == {k \in 1..Len(lines) : lines[k][1] # "Phone: "}
          IN  /\ (phones # {}) <=> (row.phone_number # << >>)
              /\ (doctors # {}) <=> (row.doctor_name # << >> \/ row.doctor_phone # << >>)
              /\ Cardinality(doctors) <= 1
              /\ \A k \in doctors : lines[k][1] = "Doctor: " ]_vars

\* C21 (amended): a written PDF's header is the title, then a line Phone: phone
\* exactly when the header read returned the row with id 1 and its phone is
\* non-empty, then one doctor line exactly when that row's doctor name or doctor
\* phone is non-empty: Doctor: name -- phone with both, Doctor: name with the name
\* only, Doctor phone: phone with the phone only.  When the read fails or finds no
\* row with id 1 the header is the title My Pharmacy alone.
C21_HeaderLines ==
    [][ PdfWritten =>
          IF HeaderRead
          THEN LET row == StoredSettings(settings)
                   phone_lines == IF row.phone_number # << >>
                                  THEN << <<"Phone: ">> \o row.phone_number >> ELSE << >>
                   doctor_lines ==
                       CASE row.doctor_name # << >> /\ row.doctor_phone # << >> ->
                                << <<"Doctor: ">> \o row.doctor_name \o <<EmDash>>
                                   \o row.doctor_phone >>
                         [] row.doctor_name # << >> /\ row.doctor_phone = << >> ->
                                << <<"Doctor: ">> \o row.doctor_name >>
                         [] row.doctor_name = << >> /\ row.doctor_phone # << >> ->
                                << <<"Doctor phone: ">> \o row.doctor_phone >>
                         [] OTHER -> << >>
               IN  /\ io'.header[1] = <<"<b>">> \o row.pharmacy_name \o <<"</b>">>
                   /\ HeaderLines(io'.header) = phone_lines \o doctor_lines
          ELSE io'.header = << <<"<b>">> \o MyPharmacy \o <<"</b>">> >> ]_vars

\* Reached: a PDF written with only the doctor's phone stored: its header is the
\* title, the phone line and the line Doctor phone: 8.
C21_Witness ==
    /\ snack = "PDF saved"
    /\ storage = "up"
    /\ Len(settings) = 1 /\ settings[1].id = 1
    /\ settings[1].doctor_name = << >> /\ settings[1].doctor_phone = <<"8">>
    /\ io.header = << <<"<b>">> \o MyPharmacy \o <<"</b>">>,
                      <<"Phone: ">> \o SeedPhone,
                      <<"Doctor phone: ", "8">> >>

\* Reached: a PDF written with the doctor's name and phone both stored.
C21_WitnessBoth ==
    /\ snack = "PDF saved"
    /\ \E k \in 1..Len(io.header) : io.header[k] = <<"Doctor: ", "D", EmDash, "8">>

\* Reached: a PDF written with only the doctor's name stored.
C21_WitnessNameOnly ==
    /\ snack = "PDF saved"
    /\ io.header[Len(io.header)] = <<"Doctor: ", "D">>

\* Reached: a PDF written while the header read failed, the phone being stored.
C21_WitnessReadFailed ==
    /\ snack = "PDF saved"
    /\ storage # "up"
    /\ settings # << >>
    /\ Len(io.header) = 1

\* C22: an update of an existing item rewrites its name, type, quantity, price,
\* expiry month and expiry year from the form, leaves its id and created_at as
\* they were, leaves every other row as it was, and leaves the number of rows as
\* it was.
C22_UpdateRewritesOneRow ==
    [][ (edit_save_item /\ snack' = "Item updated successfully"
         /\ edit_item[1].id \in ItemIds(items)) =>
          LET old == CHOOSE i \in items : i.id = edit_item[1].id
          IN  /\ \E new \in items' :
                    /\ new.id = old.id
                    /\ new.created_at = old.created_at
                    /\ new.name = strip(form.name)
                    /\ new.type_id = int(form.type)
                    /\ new.quantity = int(form.quantity)
                    /\ new.price = float(form.price)
                    /\ new.expiry_month = int(form.month)
                    /\ new.expiry_year = int(form.year)
                    /\ items' \ {new} = items \ {old}
              /\ Cardinality(items') = Cardinality(items)
              /\ seq_items' = seq_items ]_vars

\* Reached: the first of two stored items was updated after the second was added:
\* every field of it is another one than it was added with, and its id and
\* created_at are the first row's.
C22_Witness ==
    /\ snack = "Item updated successfully"
    /\ Cardinality(items) = 2
    /\ \E i \in items :
          /\ i.id = 1 /\ i.created_at = 1
          /\ i.name = <<"B">> /\ i.type_id = 2 /\ i.quantity = 3 /\ i.price = 1200
          /\ i.expiry_month = 6 /\ i.expiry_year = 2024
    /\ \E i \in items : i.id = 2 /\ i.name = <<"A">> /\ i.type_id = 1

\* C23: at every moment of a run of the user interface the types table holds
\* exactly 8 rows, named Tablet, Syrup, Injection, Capsule, Ointment, Drops, Spray
\* and Cream.
C23_EightNamedTypes ==
    /\ Cardinality(types) = 8
    /\ {t.name_en : t \in types} =
           {"Tablet", "Syrup", "Injection", "Capsule", "Ointment", "Drops", "Spray", "Cream"}

\* What does hold in every state of those runs: the table is as init_db seeded it,
\* the eighth name with the space the seed statement has after it.
TypesAsSeeded == types = SeedTypes

\* C24: in every state of a run of navigation, open-add, open-edit, save, cancel
\* and theme-toggle actions the floating add button is visible exactly when the
\* items list is the view shown; on the export, settings, contact, add and edit
\* views it is hidden.
C24_AddButtonOnListOnly ==
    /\ fab_visible <=> (view = "list")
    /\ view \in {"export", "settings", "contact", "add", "edit"} => ~fab_visible

\* Reached: the edit form, opened from the items list after the theme was toggled
\* to dark; the add button is hidden.
C24_Witness ==
    /\ view = "edit"
    /\ edit_item # << >>
    /\ page_theme_mode = "dark"
    /\ ~fab_visible

\* The four views of the navigation bar, by index.
NavViews == <<"list", "export", "settings", "contact">>

\* C25: a theme toggle while one of the four navigation views is shown builds that
\* view again (fresh filter and table, settings read again) and keeps the
\* navigation index; a toggle while the add or edit form is shown, the navigation
\* index being unset, puts the items list at index 0 in its place, drops the
\* form's input and writes nothing to the items table.
C25_ToggleRebuildsView ==
    [][ toggle_theme =>
          /\ page_theme_mode' # page_theme_mode
          /\ items' = items /\ seq_items' = seq_items
          /\ IF view \in {"add", "edit"}
             THEN /\ nav_index = -1
                  /\ view' = "list" /\ nav_index' = 0
                  /\ form' = BlankForm /\ edit_item' = << >>
                  /\ rows' = load_data(items, types, FreshFilter)
             ELSE /\ nav_index \in 0..3
                  /\ view = NavViews[nav_index + 1]
                  /\ view' = view /\ nav_index' = nav_index
                  /\ view \in {"list", "export"} =>
                        (filter' = FreshFilter /\ rows' = load_data(items, types, FreshFilter))
                  /\ view = "settings" =>
                        (mem' = load_settings(settings) /\ sform' = settings_form(mem')) ]_vars

\* Reached: the theme is dark (it was toggled), and the add form is shown with
\* input that is not saved, the navigation index unset: the state a toggle
\* replaces by the items list.
C25_Witness ==
    /\ page_theme_mode = "dark"
    /\ view = "add"
    /\ nav_index = -1
    /\ form \in FaultForms
    /\ items = {}

\* C26: the displayed theme does not follow the stored settings.theme_mode: every
\* start of the program displays the light theme whatever is stored, a save of
\* the settings form stores the switch's value and leaves the displayed theme as
\* it is, and the theme button flips the displayed theme and writes no table.
C26_ThemeNotFromSettings ==
    [][ /\ main => (page_theme_mode' = "light" /\ settings' = settings)
        /\ save_settings =>
              /\ page_theme_mode' = page_theme_mode
              /\ StoredSettings(settings').theme_mode = IF sform.dark THEN "dark" ELSE "light"
        /\ toggle_theme =>
              /\ page_theme_mode' = IF page_theme_mode = "dark" THEN "light" ELSE "dark"
              /\ db' = db ]_vars

\* Reached: the program was started on a file whose settings row stores the dark
\* theme, and displays the light one.
C26_Witness ==
    /\ io = Ok(3)
    /\ view = "list"
    /\ StoredSettings(settings).theme_mode = "dark"
    /\ page_theme_mode = "light"

\* Reached: the dark theme displayed while the settings row stores the light one.
C26_WitnessDarkShown ==
    /\ page_theme_mode = "dark"
    /\ StoredSettings(settings).theme_mode = "light"
    /\ snack = "Settings saved"

\* The settings form as the Reset button leaves it.
ResetForm(f) ==
    f.name = MyPharmacy /\ f.phone = << >> /\ f.doctor_name = << >> /\ f.doctor_phone = << >>

\* A Save pressed on the form as Reset left it stores the pharmacy name My Pharmacy
\* and leaves the stored phone number, doctor name and doctor phone as they were.
SaveAfterReset ==
    (save_settings /\ ResetForm(sform)) =>
        /\ snack' = "Settings saved"
        /\ StoredSettings(settings').pharmacy_name = MyPharmacy
        /\ StoredSettings(settings').phone_number = StoredSettings(settings).phone_number
        /\ StoredSettings(settings').doctor_name = StoredSettings(settings).doctor_name
        /\ StoredSettings(settings').doctor_phone = StoredSettings(settings).doctor_phone

C27_WitnessTitle ==
    /\ view = "settings"
    /\ ResetForm(sform)
    /\ StoredSettings(settings).pharmacy_name = <<"N">>
    /\ app_title = MyPharmacy
    /\ io = NoIO

\* C28: when the list for the selected filter is empty as Export is pressed (no
\* item stored, or none inside the selected range), the export shows
\* "No data to export", opens no folder picker and writes no PDF.
C28_EmptyExportRefused ==
    [][ ((\E android, built \in BOOLEAN : export_to_pdf(android, built))
         /\ load_data(items, types, filter) = << >>) =>
            /\ snack' = "No data to export"
            /\ "No data to export" \in io'.errors
            /\ picker' = << >>
            /\ io'.pdf = << >> /\ io'.header = << >>
            /\ rows' = << >>
            /\ db' = db ]_vars

\* Reached: Export was refused on the export page while items are stored, none of
\* them inside the range the four filter dropdowns select.
C28_Witness ==
    /\ view = "export"
    /\ snack = "No data to export"
    /\ items # {}
    /\ filter_parses(filter)
    /\ rows = << >>
    /\ picker = << >>

\* All four filter values are set and the start (year, month) is after the end.
ReversedRange(f) ==
    /\ FilterSet(f)
    /\ MonthNumber(int(f.start_year), int(f.start_month))
           > MonthNumber(int(f.end_year), int(f.end_month))

\* C29: with all four filter values set and the start (year, month) after the end
\* (year, month), load_data lists no item, whatever is stored, and neither shows
\* nor logs an error.
C29_ReversedRangeEmpty ==
    [][ (ReversedRange(filter) /\ LoadStep) =>
            /\ rows' = << >>
            /\ snack' \notin ErrorMessages
            /\ io'.errors = {} /\ io'.log = {} ]_vars

\* Reached: a range from 03/2025 to 01/2025 applied over three stored items: the
\* list is empty.
C29_Witness ==
    /\ snack = "Filter applied successfully"
    /\ filter = FilterOf(<<"0", "3">>, <<"2", "0", "2", "5">>, <<"0", "1">>, <<"2", "0", "2", "5">>)
    /\ Cardinality(items) = 3
    /\ select_items(items, types) # << >>
    /\ rows = << >>

\* C30 (as claimed): never more than one item-details dialog is open; a row
\* selected while a dialog is open leaves only the new row's dialog open; Close,
\* Delete and Edit each leave no dialog open.
C30_OneDialogAllClose ==
    /\ [](Len(dialog) <= 1)
    /\ [][ /\ \A k \in 1..MaxItems : on_row_select(k) => dialog' = <<rows[k]>>
           /\ (close_dialog \/ on_delete_click \/ on_edit_click) => dialog' = << >> ]_vars

\* C30 (amended): never more than one item-details dialog is open; a row selected
\* while a dialog is open leaves only the new row's dialog open; Close, Edit and
\* a Delete whose statement runs leave no dialog open; a Delete whose statement
\* raises leaves its dialog open under the error notification.
C30_OneDialog ==
    /\ [](Len(dialog) <= 1)
    /\ [][ /\ \A k \in 1..MaxItems : on_row_select(k) => dialog' = <<rows[k]>>
           /\ (close_dialog \/ on_edit_click) => dialog' = << >>
           /\ on_delete_click =>
                 IF storage = "up"
                 THEN dialog' = << >> /\ snack' = "Item deleted successfully"
                 ELSE dialog' = dialog /\ snack' = "Error during deletion" ]_vars

\* Reached: Delete was pressed while the database file fails: the one dialog is
\* still open, the error notification over it.
C30_Witness ==
    /\ Len(dialog) = 1
    /\ snack = "Error during deletion"
    /\ dialog[1].id \in ItemIds(items)

\* Reached: with two rows in the table, the dialog of the second is the one open.
C30_WitnessSecondRow ==
    /\ Len(rows) >= 2
    /\ dialog = <<rows[2]>>

====
